---- MODULE Spec2Model ----
(***************************************************************************)
(* Model of minqlx-fork/commands.c: the console commands slap, slay,       *)
(* py_command and restart_python.                                          *)
(*                                                                         *)
(* The entity table, the client table and the interpreter session are the  *)
(* state; every console command is one action (py_command is two, because  *)
(* the registered handler runs interpreter code between its call and its   *)
(* return).  Each command records what it did, in order, in `out`.         *)
(***************************************************************************)
EXTENDS Integers, Sequences, FiniteSets, TLC

VARIABLES
    g_entities,              \* entity table: index -> [inuse, health, velocity]
    crashed,                 \* the host process took a fault (undefined behaviour)
    cmd,                     \* the command being run, or the last one run
    out,                     \* what that command did, in order
    initialized,             \* Interpreter Session: PyMinqlx_IsInitialized()
    custom_command_handler,  \* the Registered Command Handler, or NULL
    script_refs,             \* handler objects the scripts themselves still reference
    gil,                     \* serialization lock: how many times the host thread holds it
    pc,                      \* position inside PyCommand: "idle" or "call"
    callee                   \* the handler object whose call is in progress, or NULL

vars == <<g_entities, crashed, cmd, out, initialized, custom_command_handler,
          script_refs, gil, pc, callee>>

entityVars == <<g_entities>>
bridgeVars == <<initialized, custom_command_handler, script_refs, gil, pc, callee>>

-----------------------------------------------------------------------------
(* Bounds of the model *)

\* How many effective slaps a behaviour holds, over all entities (each adds
\* 300 to its target's velocity[2]).
MaxSlaps == 1
\* How many effective slaps a behaviour of cosmetic slaps alone holds.
MaxCosmeticSlaps == 2

-----------------------------------------------------------------------------
(* Program constants *)

\* sv_maxclients->integer: the host's configured number of client slots.
sv_maxclients == 2
OverkillHealth == -40
PainParm == 99
UpImpulse == 300
SideImpulse == 200
INT_MAX == 2147483647
INT_MIN == -INT_MAX - 1

NULL == "NULL"

-----------------------------------------------------------------------------
(* Argument strings are sequences of characters; atoi parses them. *)

Digits == <<"0", "1", "2", "3", "4", "5", "6", "7", "8", "9">>

IsDigit(c) == \E k \in 1..10 : Digits[k] = c

DigitVal(c) == (CHOOSE k \in 1..10 : Digits[k] = c) - 1

IsSpace(c) == c \in {" ", "\t"}

RECURSIVE SkipSpace(_, _)
SkipSpace(s, k) ==
    IF k <= Len(s) /\ IsSpace(s[k]) THEN SkipSpace(s, k + 1) ELSE k

\* The digits from position k on, accumulated as a negative number so that
\* INT_MIN is reached without overflow.
RECURSIVE AtoiDigits(_, _, _)
AtoiDigits(s, k, acc) ==
    IF k <= Len(s) /\ IsDigit(s[k])
    THEN AtoiDigits(s, k + 1, acc * 10 - DigitVal(s[k]))
    ELSE acc

\* atoi: optional white space, an optional sign, then decimal digits up to
\* the first character that is not one; 0 when there are no digits.
atoi(s) ==
    LET k    == SkipSpace(s, 1)
        sign == IF k <= Len(s) /\ s[k] \in {"-", "+"} THEN s[k] ELSE ""
        from == IF sign = "" THEN k ELSE k + 1
        neg  == AtoiDigits(s, from, 0)
    IN  IF sign = "-" THEN neg ELSE -neg

\* The decimal string of a small index (the inverse direction, for inputs).
IndexString(n) == <<Digits[n + 1]>>

-----------------------------------------------------------------------------
(* Inputs *)

\* client_id arguments: every slot, sv_maxclients itself, one above and a
\* negative number.
IndexArgs ==
    {IndexString(n) : n \in 0..(sv_maxclients + 1)}
        \cup {<<"-", "1">>}

\* damage arguments, among them INT_MIN.
DamageArgs ==
    {<<"0">>, <<"3", "0">>, <<"6", "0">>, <<"-", "5">>,
     <<"-", "2", "1", "4", "7", "4", "8", "3", "6", "4", "8">>}

ClientIndexArgs == {IndexString(n) : n \in 0..(sv_maxclients - 1)}

\* slap with no argument, with a client_id, and with a client_id and a
\* damage (every damage for the client slots, one for the other indices).
SlapArgvs ==
    {<<"slap">>}
        \cup {<<"slap", a>> : a \in IndexArgs}
        \cup {<<"slap", a, d>> : a \in ClientIndexArgs, d \in DamageArgs}
        \cup {<<"slap", a, <<"3", "0">>>> : a \in IndexArgs \ ClientIndexArgs}

SlayArgvs ==
    {<<"slay">>} \cup {<<"slay", a>> : a \in IndexArgs}

\* RandomFloatWithNegative() returns a float in [-1, 1]; its extremes.
RandSamples == {-1, 1}

-----------------------------------------------------------------------------
(* Host tables *)

EntityIndices == 0..sv_maxclients

\* g_entities[i].client is set for the client slots only.
HasClient(i) == i \in 0..(sv_maxclients - 1)

\* g_entities[i].s.number
s_number(i) == i

\* svs->clients has sv_maxclients entries; reading entry sv_maxclients is out
\* of bounds: the read returns whatever lies there, or faults.
ClientNames == <<"player0", "player1", "player2", "player3">>
Read(v) == [fault |-> FALSE, val |-> v]
ClientNameRead(i) ==
    IF HasClient(i)
    THEN {Read(ClientNames[i + 1])}
    ELSE {Read("garbage"), [fault |-> TRUE, val |-> ""]}

\* int - int.  Signed overflow is undefined: the build wraps (two's
\* complement) or traps.
IntSub(a, b) ==
    IF b < 0 /\ a > INT_MAX + b
    THEN {Read(((a + INT_MIN) - b) + INT_MIN), [fault |-> TRUE, val |-> 0]}
    ELSE IF b > 0 /\ a < INT_MIN + b
    THEN {Read(((a - INT_MIN) - b) - INT_MIN), [fault |-> TRUE, val |-> 0]}
    ELSE {Read(a - b)}

-----------------------------------------------------------------------------
(* Effects a command records in `out` *)

\* Every effect is a record of one shape: the primitive called, its format
\* or kind, its string argument, the entity it concerns (-1: none) and its
\* integer argument.
Effect(o, m, s, e, n) == [op |-> o, msg |-> m, str |-> s, ent |-> e, num |-> n]
Com_Printf(m, s, n) == Effect("Com_Printf", m, s, -1, n)
DebugPrint(m, s) == Effect("DebugPrint", m, s, -1, 0)
\* SV_SendServerCommand(NULL, ...): to every client.
SV_SendServerCommand(m, s, n) == Effect("SV_SendServerCommand", m, s, -1, n)
G_AddEvent(i, e, p) == Effect("G_AddEvent", e, "", i, p)

\* Cmd_Argc() and Cmd_Argv(n) over the tokenized command line.
Cmd_Argc(argv) == Len(argv)
Cmd_Argv(argv, n) == argv[n + 1]

Outcome(e, o, c) == [ents |-> e, out |-> o, crashed |-> c]

-----------------------------------------------------------------------------
(* Slap and Slay *)

\* The range test of both commands: i < 0 || i > sv_maxclients->integer.
IndexOutOfRange(i) == i < 0 \/ i > sv_maxclients

SlapUsageDiagnostic_Broadcast(argv) ==
    <<SV_SendServerCommand("Usage: %s <client_id> [damage]", Cmd_Argv(argv, 0), 0)>>

SlapUsageDiagnostic(argv) ==
    <<Com_Printf("Usage: %s <client_id> [damage]", Cmd_Argv(argv, 0), 0)>>

SlayUsageDiagnostic(argv) ==
    <<Com_Printf("Usage: %s <client_id>", Cmd_Argv(argv, 0), 0)>>

RangeDiagnostic_Broadcast ==
    <<SV_SendServerCommand("client_id must be a number between 0 and %d", "", sv_maxclients)>>

RangeDiagnostic ==
    <<Com_Printf("client_id must be a number between 0 and %d", "", sv_maxclients)>>

NotActiveDiagnostic == <<Com_Printf("The player is currently not active.", "", 0)>>

IsActive_InuseOnly(e) == e.inuse

IsActive_HealthOnly(e) == e.health > 0

\* g_entities[i].inuse && g_entities[i].health > 0
IsActive(e) == e.inuse /\ e.health > 0

\* velocity[0] += r * 200.0f; velocity[1] += r * 200.0f; velocity[2] += 300.0f
Knockback(v, rx, ry) ==
    <<v[1] + rx * SideImpulse, v[2] + ry * SideImpulse, v[3] + UpImpulse>>

SlapBroadcast(n, dmg) ==
    IF dmg # 0
    THEN SV_SendServerCommand("%s^7 was slapped for %d damage!", n, dmg)
    ELSE SV_SendServerCommand("%s^7 was slapped!", n, 0)

SlapEvent(i, h) ==
    IF h > 0
    THEN G_AddEvent(i, "EV_PAIN", PainParm)
    ELSE G_AddEvent(i, "EV_DEATH1", s_number(i))

\* The body of Slap's active branch, for target i.  Each undefined step
\* (the name read past the client table, the store through a null client
\* pointer, a signed overflow) either faults there or goes on.
SlapActive(ents, i, dmg, rx, ry) ==
    LET said == <<Com_Printf("Slapping...", "", 0)>>
        After(n) ==
            LET told == Append(said, SlapBroadcast(n, dmg))
                pushed == [ents EXCEPT ![i].velocity = Knockback(@, rx, ry)]
            IN  IF ~HasClient(i)
                THEN {Outcome(ents, told, TRUE)}
                ELSE {IF h.fault
                      THEN Outcome(pushed, told, TRUE)
                      ELSE Outcome([pushed EXCEPT ![i].health = h.val],
                                   Append(told, SlapEvent(i, h.val)), FALSE)
                      : h \in IntSub(ents[i].health, dmg)}
    IN  UNION {IF n.fault THEN {Outcome(ents, said, TRUE)} ELSE After(n.val)
               : n \in ClientNameRead(i)}

SlapDamage_FromClientId(argv) == atoi(Cmd_Argv(argv, 1))

\* int dmg = 0; ... else if (argc > 2) dmg = atoi(Cmd_Argv(2));
SlapDamage(argv) ==
    IF Cmd_Argc(argv) > 2 THEN atoi(Cmd_Argv(argv, 2)) ELSE 0

\* void Slap(void): every outcome of one invocation on entity table `ents`.
SlapOutcomes(ents, argv) ==
    LET argc == Cmd_Argc(argv)
    IN  IF argc < 2
        THEN {Outcome(ents, SlapUsageDiagnostic(argv), FALSE)}
        ELSE LET i   == atoi(Cmd_Argv(argv, 1))
                 dmg == SlapDamage(argv)
             IN  IF IndexOutOfRange(i)
                 THEN {Outcome(ents, RangeDiagnostic, FALSE)}
                 ELSE IF IsActive(ents[i])
                 THEN UNION {SlapActive(ents, i, dmg, rx, ry)
                             : rx \in RandSamples, ry \in RandSamples}
                 ELSE {Outcome(ents, NotActiveDiagnostic, FALSE)}

SlayHealth_Subtract(h) == h + OverkillHealth

\* g_entities[i].health = -40
SlayHealth(h) == OverkillHealth

SlayActive_Frees(ents, i) ==
    LET said == <<Com_Printf("Slaying player...", "", 0)>>
    IN  {IF n.fault
         THEN Outcome(ents, said, TRUE)
         ELSE Outcome([ents EXCEPT ![i].health = SlayHealth(@), ![i].inuse = FALSE],
                      said \o <<SV_SendServerCommand("%s^7 was slain!", n.val, 0),
                                DebugPrint("Slaying '%s'!", n.val),
                                G_AddEvent(i, "EV_GIB_PLAYER", s_number(i))>>,
                      FALSE)
         : n \in ClientNameRead(i)}

\* The body of Slay's active branch, for target i.
SlayActive(ents, i) ==
    LET said == <<Com_Printf("Slaying player...", "", 0)>>
    IN  {IF n.fault
         THEN Outcome(ents, said, TRUE)
         ELSE Outcome([ents EXCEPT ![i].health = SlayHealth(@)],
                      said \o <<SV_SendServerCommand("%s^7 was slain!", n.val, 0),
                                DebugPrint("Slaying '%s'!", n.val),
                                G_AddEvent(i, "EV_GIB_PLAYER", s_number(i))>>,
                      FALSE)
         : n \in ClientNameRead(i)}

\* void Slay(void): every outcome of one invocation on entity table `ents`.
SlayOutcomes(ents, argv) ==
    LET argc == Cmd_Argc(argv)
    IN  IF argc < 2
        THEN {Outcome(ents, SlayUsageDiagnostic(argv), FALSE)}
        ELSE LET i == atoi(Cmd_Argv(argv, 1))
             IN  IF IndexOutOfRange(i)
                 THEN {Outcome(ents, RangeDiagnostic, FALSE)}
                 ELSE IF IsActive(ents[i])
                 THEN SlayActive(ents, i)
                 ELSE {Outcome(ents, NotActiveDiagnostic, FALSE)}

\* The model follows the table through at most MaxSlaps effective slaps.
RECURSIVE Lifted(_, _)
Lifted(ents, n) ==
    IF n < 0 THEN 0 ELSE ents[n].velocity[3] + Lifted(ents, n - 1)

WithinBounds(ents, slaps) == Lifted(ents, sv_maxclients) <= UpImpulse * slaps

\* One invocation of Slap with a command line out of `argvs`.
SlapStep(argvs, slaps) ==
    /\ ~crashed /\ pc = "idle"
    /\ \E argv \in argvs :
         \E o \in SlapOutcomes(g_entities, argv) :
            /\ WithinBounds(o.ents, slaps)
            /\ g_entities' = o.ents
            /\ out' = o.out
            /\ crashed' = o.crashed
            /\ cmd' = argv
    /\ UNCHANGED bridgeVars

Slap == SlapStep(SlapArgvs, MaxSlaps)

\* Slap with damage 0: no damage argument, or the argument "0".
CosmeticArgvs ==
    {<<"slap", a>> : a \in IndexArgs} \cup {<<"slap", a, <<"0">>>> : a \in ClientIndexArgs}

CosmeticSlap == SlapStep(CosmeticArgvs, MaxCosmeticSlaps)

Slay ==
    /\ ~crashed /\ pc = "idle"
    /\ \E argv \in SlayArgvs :
         \E o \in SlayOutcomes(g_entities, argv) :
            /\ g_entities' = o.ents
            /\ out' = o.out
            /\ crashed' = o.crashed
            /\ cmd' = argv
    /\ UNCHANGED bridgeVars

-----------------------------------------------------------------------------
(* The action commands on their own: any entity table the host can present *)

\* A client slot: free (with whatever health its last player left), or in
\* use by a player who is dead, nearly dead or healthy.
ClientEntityStates ==
    [inuse : {FALSE}, health : {50}, velocity : {<<0, 0, 0>>}]
        \cup [inuse : {TRUE}, health : {0, 1, 50}, velocity : {<<0, 0, 0>>}]

\* The entity after the client slots: free, or a world entity.
OtherEntityStates ==
    [inuse : BOOLEAN, health : {50}, velocity : {<<0, 0, 0>>}]

InitEntities ==
    /\ g_entities \in [EntityIndices -> ClientEntityStates \cup OtherEntityStates]
    /\ \A i \in EntityIndices :
         g_entities[i] \in IF HasClient(i) THEN ClientEntityStates ELSE OtherEntityStates

InitAction ==
    /\ InitEntities
    /\ crashed = FALSE
    /\ cmd = <<>>
    /\ out = <<>>
    /\ initialized = TRUE
    /\ custom_command_handler = "h1"
    /\ script_refs = {}
    /\ gil = 0
    /\ pc = "idle"
    /\ callee = NULL

NextAction == Slap \/ Slay

SpecAction == InitAction /\ [][NextAction]_vars

\* Cosmetic slaps alone, repeated.
NextCosmetic == CosmeticSlap

SpecCosmetic == InitAction /\ [][NextCosmetic]_vars

-----------------------------------------------------------------------------
(* The scripting bridge *)

Handlers == {"h1", "h2"}

\* What PyObject_CallFunction can give back: Py_True, Py_False, Py_None,
\* another object (an int, a string), or NULL when the handler raised.
Results == {"Py_True", "Py_False", "Py_None", "other", "NULL"}

\* Cmd_Args(): the raw argument string of the invocation.
PyArgs == {"", "ping"}

SessionName(b) == IF b THEN "Initialized" ELSE "Uninitialized"

\* The session as RestartPython passes it from step to step.
Session(i, h, r) == [initialized |-> i, handler |-> h, refs |-> r]

PyMinqlx_IsInitialized(s) == s.initialized

\* Initialize: Uninitialized -> Initialized, the handler unregistered at
\* session start; fails (reported, session untouched) if already initialized.
PyMinqlx_Initialize(s) ==
    IF s.initialized THEN s ELSE Session(TRUE, NULL, {})

\* Finalize: Initialized -> Uninitialized, releasing every interpreter-held
\* object and invalidating the registered handler; guarded when uninitialized.
PyMinqlx_Finalize(s) ==
    IF s.initialized THEN Session(FALSE, NULL, {}) ELSE s

\* A call the bridge makes into the embedding layer, with the session state
\* it finds.
BridgeCall(f, s, n) == Effect(f, SessionName(s.initialized), "", -1, n)

RestartPython_NotifyFirst(s) ==
    LET fin == PyMinqlx_IsInitialized(s)
        s1  == IF fin THEN PyMinqlx_Finalize(s) ELSE s
        s2  == PyMinqlx_Initialize(s1)
    IN  [session |-> s2,
         out |-> <<Com_Printf("Restarting Python...", "", 0)>>
                 \o (IF fin THEN <<BridgeCall("PyMinqlx_Finalize", s, 0)>> ELSE <<>>)
                 \o <<BridgeCall("NewGameDispatcher", s1, 0),
                      BridgeCall("PyMinqlx_Initialize", s1, 0)>>]

RestartPython_SkipWhenLive(s) ==
    LET fin == PyMinqlx_IsInitialized(s)
        s2  == PyMinqlx_Initialize(s)
    IN  [session |-> s2,
         out |-> <<Com_Printf("Restarting Python...", "", 0)>>
                 \o (IF fin THEN <<>> ELSE <<BridgeCall("PyMinqlx_Initialize", s, 0)>>)
                 \o <<BridgeCall("NewGameDispatcher", s2, 0)>>]

RestartPython_NoGuard(s) ==
    LET s1 == PyMinqlx_Finalize(s)
        s2 == PyMinqlx_Initialize(s1)
    IN  [session |-> s2,
         out |-> <<Com_Printf("Restarting Python...", "", 0),
                   BridgeCall("PyMinqlx_Finalize", s, 0),
                   BridgeCall("PyMinqlx_Initialize", s1, 0),
                   BridgeCall("NewGameDispatcher", s2, 0)>>]

RestartPython_FinalizeElseInitialize(s) ==
    LET fin == PyMinqlx_IsInitialized(s)
        s1  == IF fin THEN PyMinqlx_Finalize(s) ELSE PyMinqlx_Initialize(s)
    IN  [session |-> s1,
         out |-> <<Com_Printf("Restarting Python...", "", 0)>>
                 \o (IF fin THEN <<BridgeCall("PyMinqlx_Finalize", s, 0)>>
                            ELSE <<BridgeCall("PyMinqlx_Initialize", s, 0)>>)
                 \o <<BridgeCall("NewGameDispatcher", s1, 0)>>]

\* void RestartPython(void): the session it leaves and what it did.
RestartPythonSteps(s) ==
    LET fin == PyMinqlx_IsInitialized(s)
        s1  == IF fin THEN PyMinqlx_Finalize(s) ELSE s
        s2  == PyMinqlx_Initialize(s1)
    IN  [session |-> s2,
         out |-> <<Com_Printf("Restarting Python...", "", 0)>>
                 \o (IF fin THEN <<BridgeCall("PyMinqlx_Finalize", s, 0)>> ELSE <<>>)
                 \o <<BridgeCall("PyMinqlx_Initialize", s1, 0),
                      BridgeCall("NewGameDispatcher", s2, 0)>>]

RestartPython ==
    /\ ~crashed /\ pc = "idle"
    /\ LET r == RestartPythonSteps(
                    Session(initialized, custom_command_handler, script_refs))
       IN  /\ initialized' = r.session.initialized
           /\ custom_command_handler' = r.session.handler
           /\ script_refs' = r.session.refs
           /\ out' = r.out
    /\ cmd' = <<"restart_python">>
    /\ UNCHANGED <<g_entities, crashed, gil, pc, callee>>

\* A script registers, replaces or (with NULL) unregisters the custom
\* command handler; `keep` says whether the script holds on to the new
\* callable itself.  Scripts run when the host dispatches other events and,
\* during a call, as the body of the running handler.
RegisterHandler ==
    /\ ~crashed /\ initialized
    /\ \E new \in Handlers \cup {NULL}, keep \in BOOLEAN :
         /\ new = NULL => ~keep
         /\ custom_command_handler' = new
         /\ script_refs' = IF keep THEN script_refs \cup {new}
                                   ELSE script_refs \ {new}
    /\ UNCHANGED <<g_entities, crashed, cmd, out, initialized, gil, pc, callee>>

\* if (!custom_command_handler)
NoHandler_Never(h) == FALSE

NoHandler(h) == h = NULL

\* PyCommand up to the call: the handler test, PyGILState_Ensure and
\* PyObject_CallFunction(custom_command_handler, "s", Cmd_Args()).
PyCommand_Call ==
    /\ ~crashed /\ pc = "idle"
    /\ \E args \in PyArgs :
         /\ cmd' = <<"py_command", args>>
         /\ IF NoHandler(custom_command_handler)
            THEN /\ out' = <<>>
                 /\ UNCHANGED <<gil, pc, callee>>
            ELSE /\ gil' = gil + 1
                 /\ out' = <<Effect("PyGILState_Ensure", "", "", -1, 0),
                             Effect("PyObject_CallFunction",
                                    custom_command_handler, args, -1, 0)>>
                 /\ callee' = custom_command_handler
                 /\ pc' = "call"
    /\ UNCHANGED <<g_entities, crashed, initialized, custom_command_handler, script_refs>>

FailedDiagnostic ==
    Com_Printf("The command failed to be executed. pyminqlx found no handler.", "", 0)

Declined_Falsy(r) == r \in {"Py_False", "Py_None"}

\* result == Py_False
Declined(r) == r = "Py_False"

AfterCall_ReleaseFirst(r) ==
    [out |-> (IF Declined(r) THEN <<FailedDiagnostic>> ELSE <<>>)
             \o <<Effect("PyGILState_Release", "", "", -1, 0),
                  Effect("Py_XDECREF", r, "", -1, 0)>>,
     gil |-> -1]

AfterCall_ReturnOnFault(r) ==
    IF r = "NULL"
    THEN [out |-> <<>>, gil |-> 0]
    ELSE [out |-> (IF Declined(r) THEN <<FailedDiagnostic>> ELSE <<>>)
                  \o <<Effect("Py_XDECREF", r, "", -1, 0),
                       Effect("PyGILState_Release", "", "", -1, 0)>>,
          gil |-> -1]

\* PyCommand after the call returned r: the test of the result, Py_XDECREF
\* and PyGILState_Release; what it does and how it changes the lock.
AfterCall(r) ==
    [out |-> (IF Declined(r) THEN <<FailedDiagnostic>> ELSE <<>>)
             \o <<Effect("Py_XDECREF", r, "", -1, 0),
                  Effect("PyGILState_Release", "", "", -1, 0)>>,
     gil |-> -1]

\* PyCommand from the return of the handler on.
PyCommand_Return ==
    /\ ~crashed /\ pc = "call"
    /\ \E r \in Results :
         LET a == AfterCall(r)
         IN  /\ out' = out \o <<Effect("return", r, "", -1, 0)>> \o a.out
             /\ gil' = gil + a.gil
    /\ pc' = "idle"
    /\ callee' = NULL
    /\ UNCHANGED <<g_entities, crashed, cmd, initialized, custom_command_handler,
                   script_refs>>

-----------------------------------------------------------------------------
(* The bridge on its own: the entity table is left as the host set it *)

InitBridge ==
    /\ g_entities = [i \in EntityIndices |->
                        [inuse |-> HasClient(i), health |-> 50, velocity |-> <<0, 0, 0>>]]
    /\ crashed = FALSE
    /\ cmd = <<>>
    /\ out = <<>>
    /\ initialized \in BOOLEAN
    /\ custom_command_handler = NULL
    /\ script_refs = {}
    /\ gil = 0
    /\ pc = "idle"
    /\ callee = NULL

NextBridge == PyCommand_Call \/ PyCommand_Return \/ RegisterHandler \/ RestartPython

SpecBridge == InitBridge /\ [][NextBridge]_vars

-----------------------------------------------------------------------------
(* Vocabulary of the properties *)

\* The command in c is `name`, given at least n arguments after its name.
Ran(c, name, n) == Len(c) >= n + 1 /\ c[1] = name

\* The command in c is slap or slay with a client_id argument.
RanOnTarget(c) == Ran(c, "slap", 1) \/ Ran(c, "slay", 1)

Target(c) == atoi(c[2])

ClientIndices == 0..(sv_maxclients - 1)

Has(seq, e) == \E k \in 1..Len(seq) : seq[k] = e

Ops(seq, o) == {k \in 1..Len(seq) : seq[k].op = o}

\* h - d in exact arithmetic: the int equal to it, if there is one.
ExactSub(h, d) ==
    IF (d < 0 /\ h > INT_MAX + d) \/ (d > 0 /\ h < INT_MIN + d) THEN {} ELSE {h - d}

\* h - d > 0 in exact arithmetic.
ExactPositive(h, d) ==
    IF d < 0 /\ h > INT_MAX + d THEN TRUE
    ELSE IF d > 0 /\ h < INT_MIN + d THEN FALSE
    ELSE h - d > 0

-----------------------------------------------------------------------------
(* C1: for every client index i with i < 0 or i > max_clients, whatever the
   entity table holds, a Slap or Slay changes no entity (health, velocity),
   emits no network event and no broadcast, and takes no fault: all it does
   is print the range diagnostic on the local console. *)
C1_OutOfRangeNoEffect ==
    [][(RanOnTarget(cmd') /\ (Target(cmd') < 0 \/ Target(cmd') > sv_maxclients))
        => /\ g_entities' = g_entities
           /\ ~crashed'
           /\ out' = <<Com_Printf("client_id must be a number between 0 and %d",
                                  "", sv_maxclients)>>]_vars

\* A slap aimed above max_clients, at a table whose client 0 could be hit.
C1_Witness ==
    /\ Ran(cmd, "slap", 2)
    /\ Target(cmd) > sv_maxclients
    /\ Len(out) = 1 /\ out[1].op = "Com_Printf"
    /\ g_entities[0].inuse /\ g_entities[0].health > 0

(* C6 as stated: Slay on an entity whose in_use flag is true (at a valid
   client index) sets its health to the overkill constant and emits a gib
   event, whatever its health was. *)
C6_SlayAnyHealth ==
    [][(Ran(cmd', "slay", 1) /\ Target(cmd') \in ClientIndices
            /\ g_entities[Target(cmd')].inuse)
        => /\ g_entities'[Target(cmd')].health = OverkillHealth
           /\ Has(out', G_AddEvent(Target(cmd'), "EV_GIB_PLAYER", Target(cmd')))]_vars

(* C6, amended: Slay on an entity at a valid client index whose in_use flag
   is true and whose health is above 0 sets its health to the overkill
   constant (-40) and emits exactly one event, a gib event for that entity,
   whatever positive health it had; every other entity is left as it was.
   An in-use entity with health <= 0 is left unchanged and no event goes
   out. *)
C6_SlayAlive ==
    [][(Ran(cmd', "slay", 1) /\ Target(cmd') \in ClientIndices
            /\ g_entities[Target(cmd')].inuse)
        => IF g_entities[Target(cmd')].health > 0
           THEN /\ g_entities' = [g_entities EXCEPT
                                      ![Target(cmd')].health = OverkillHealth]
                /\ ~crashed'
                /\ Cardinality(Ops(out', "G_AddEvent")) = 1
                /\ Has(out', G_AddEvent(Target(cmd'), "EV_GIB_PLAYER", Target(cmd')))
           ELSE /\ g_entities' = g_entities
                /\ ~crashed'
                /\ Ops(out', "G_AddEvent") = {}]_vars

\* Client 1 has been slain: it is at the overkill health and the gib event
\* went out.
C6_Witness ==
    /\ Ran(cmd, "slay", 1) /\ Target(cmd) = 1
    /\ g_entities[1].inuse /\ g_entities[1].health = OverkillHealth
    /\ Has(out, G_AddEvent(1, "EV_GIB_PLAYER", 1))

(* C7: for an entity at a valid client index that is in use with health
   h > 0, Slap(i, d) leaves its health equal to h - d and emits exactly one
   event: a pain event if h - d > 0, otherwise a death event. *)
C7_SlapSubtracts ==
    [][(Ran(cmd', "slap", 1) /\ Target(cmd') \in ClientIndices
            /\ g_entities[Target(cmd')].inuse
            /\ g_entities[Target(cmd')].health > 0)
        => LET i == Target(cmd')
               h == g_entities[i].health
               d == IF Len(cmd') > 2 THEN atoi(cmd'[3]) ELSE 0
           IN  /\ g_entities'[i].health \in ExactSub(h, d)
               /\ Cardinality(Ops(out', "G_AddEvent")) = 1
               /\ Has(out', IF ExactPositive(h, d)
                            THEN G_AddEvent(i, "EV_PAIN", PainParm)
                            ELSE G_AddEvent(i, "EV_DEATH1", i))]_vars

(* C8: Slap or Slay aimed at an entity whose in_use flag is false is a no-op
   for every index the range test lets through: no health or velocity
   change, no event, no broadcast, no fault; only the 'not active'
   diagnostic is printed. *)
C8_InactiveNoEffect ==
    [][(RanOnTarget(cmd') /\ Target(cmd') \in 0..sv_maxclients
            /\ ~g_entities[Target(cmd')].inuse)
        => /\ g_entities' = g_entities
           /\ ~crashed'
           /\ out' = <<Com_Printf("The player is currently not active.", "", 0)>>]_vars

\* A slay aimed at a free slot that still carries positive health.
C8_Witness ==
    /\ Ran(cmd, "slay", 1)
    /\ Target(cmd) \in ClientIndices
    /\ ~g_entities[Target(cmd)].inuse /\ g_entities[Target(cmd)].health > 0
    /\ out = <<Com_Printf("The player is currently not active.", "", 0)>>

-----------------------------------------------------------------------------
(* C2: the serialization lock is released on every exit path of PyCommand:
   whatever the handler returns (true, false, another value, or NULL after a
   raised fault), the lock is not held once the command has returned, it is
   held exactly once while the handler runs, and the finished command made
   as many releases as acquisitions (one each with a handler, none
   without). *)
C2_LockReleased ==
    /\ pc = "idle" => gil = 0
    /\ pc = "call" => gil = 1
    /\ (Ran(cmd, "py_command", 1) /\ pc = "idle")
        => /\ Cardinality(Ops(out, "PyGILState_Release"))
                = Cardinality(Ops(out, "PyGILState_Ensure"))
           /\ Cardinality(Ops(out, "PyGILState_Ensure"))
                = Cardinality(Ops(out, "PyObject_CallFunction"))
           /\ Cardinality(Ops(out, "PyGILState_Ensure")) <= 1

\* A dispatch whose handler raised has returned, and released the lock.
C2_Witness ==
    /\ Ran(cmd, "py_command", 1) /\ pc = "idle" /\ gil = 0
    /\ Has(out, Effect("return", "NULL", "", -1, 0))
    /\ Has(out, Effect("PyGILState_Release", "", "", -1, 0))

(* C3: a Restart, from either session state and after any commands, leaves
   the Interpreter Session Initialized and delivers exactly one synthetic
   new-game notification. *)
C3_RestartInitializes ==
    Ran(cmd, "restart_python", 0)
        => /\ initialized
           /\ Cardinality(Ops(out, "NewGameDispatcher")) = 1

\* A Restart that found the session Uninitialized (it made no Finalize call).
C3_Witness ==
    /\ Ran(cmd, "restart_python", 0)
    /\ Ops(out, "PyMinqlx_Finalize") = {}
    /\ initialized

(* C4: the bridge never calls Initialize on a session that is Initialized
   and never calls Finalize on one that is Uninitialized. *)
C4_NoDoubleInitialize ==
    \A k \in 1..Len(out) :
        /\ out[k].op = "PyMinqlx_Initialize" => out[k].msg = "Uninitialized"
        /\ out[k].op = "PyMinqlx_Finalize" => out[k].msg = "Initialized"

\* A Restart of a live session: Finalize, then Initialize.
C4_Witness ==
    /\ Ran(cmd, "restart_python", 0)
    /\ Ops(out, "PyMinqlx_Finalize") # {}
    /\ Ops(out, "PyMinqlx_Initialize") # {}

\* A callable is alive while something references it: the bridge's handler
\* slot or a script.  PyCommand takes no reference of its own for the call.
Live(h) == h = custom_command_handler \/ h \in script_refs

(* C5: the Registered Command Handler stays valid for the whole of a call
   into it: while the call is in progress the handler object is not
   released, also when the running handler re-registers or unregisters. *)
C5_HandlerValidDuringCall ==
    pc = "call" => Live(callee)

(* C9: PyCommand with no registered handler prints nothing, calls no handler
   and does not take the serialization lock; it returns with all state as
   it was. *)
C9_NoHandlerSilent ==
    [][(PyCommand_Call /\ custom_command_handler = NULL)
        => /\ out' = <<>>
           /\ UNCHANGED <<g_entities, crashed, bridgeVars>>]_vars

\* A dispatch into a live session with no handler registered came back
\* having done nothing.
C9_Witness ==
    /\ Ran(cmd, "py_command", 1)
    /\ initialized /\ custom_command_handler = NULL
    /\ pc = "idle" /\ out = <<>>

(* C10: with a handler registered, PyCommand prints the failure diagnostic
   if and only if the handler's result is Py_False; every other result
   (Py_True, Py_None, another object, NULL after a raised fault) prints
   nothing, and no outcome is fatal. *)
C10_DiagnosticIffFalse ==
    (Ran(cmd, "py_command", 1) /\ pc = "idle" /\ out # <<>>)
        => /\ ~crashed
           /\ Cardinality(Ops(out, "return")) = 1
           /\ \A k \in Ops(out, "return") :
                /\ out[k].msg = "Py_False"
                     => Cardinality(Ops(out, "Com_Printf")) = 1 /\ Has(out, FailedDiagnostic)
                /\ out[k].msg # "Py_False" => Ops(out, "Com_Printf") = {}

\* The handler returned Py_None, which is falsy but is not Py_False: nothing
\* was printed.
C10_Witness ==
    /\ Ran(cmd, "py_command", 1) /\ pc = "idle"
    /\ Has(out, Effect("return", "Py_None", "", -1, 0))
    /\ Ops(out, "Com_Printf") = {}

-----------------------------------------------------------------------------
\* The damage of the slap in c.
Damage(c) == IF Len(c) > 2 THEN atoi(c[3]) ELSE 0

Active(e) == e.inuse /\ e.health > 0

(* C11: repeating Slap(i, 0) on an entity at a valid client index that is
   in use with health > 0 never changes its health: every cosmetic slap,
   the first and each repetition, leaves the health of every entity as it
   was and emits exactly one event, a pain event (never a death event). *)
C11_CosmeticSlapKeepsHealth ==
    [][(Ran(cmd', "slap", 1) /\ Damage(cmd') = 0)
        => /\ \A j \in EntityIndices : g_entities'[j].health = g_entities[j].health
           /\ (Target(cmd') \in ClientIndices /\ Active(g_entities[Target(cmd')]))
                => /\ ~crashed'
                   /\ Cardinality(Ops(out', "G_AddEvent")) = 1
                   /\ Has(out', G_AddEvent(Target(cmd'), "EV_PAIN", PainParm))
                   /\ g_entities'[Target(cmd')].velocity[3]
                        = g_entities[Target(cmd')].velocity[3] + UpImpulse]_vars

\* Client 0, at health 1, has taken its second cosmetic slap and is still
\* at health 1.
C11_Witness ==
    /\ Ran(cmd, "slap", 1) /\ Damage(cmd) = 0 /\ Target(cmd) = 0
    /\ g_entities[0].velocity[3] = 2 * UpImpulse
    /\ g_entities[0].health = 1
    /\ Has(out, G_AddEvent(0, "EV_PAIN", PainParm))

(* C12: every index Slap or Slay uses to mutate an entity or to read the
   client display-name table is a valid Client Index, in [0, max_clients):
   a command that went past its diagnostics (it broadcast a name, logged
   one, raised an event or faulted on the way) was aimed at such an index. *)
C12_OnlyClientIndices ==
    (RanOnTarget(cmd)
        /\ (\/ Ops(out, "SV_SendServerCommand") # {}
            \/ Ops(out, "DebugPrint") # {}
            \/ Ops(out, "G_AddEvent") # {}
            \/ crashed))
        => Target(cmd) \in ClientIndices

(* C13: Slap or Slay invoked without a client_id argument prints a usage
   diagnostic on the local console and stops: no broadcast, no event, no
   fault, and no change to any entity or to the interpreter session. *)
C13_MissingClientIdUsage ==
    [][(Len(cmd') = 1 /\ cmd'[1] \in {"slap", "slay"})
        => /\ UNCHANGED <<g_entities, crashed, bridgeVars>>
           /\ Len(out') = 1
           /\ out'[1].op = "Com_Printf"
           /\ out'[1].str = cmd'[1]
           /\ out'[1].msg \in {"Usage: %s <client_id> [damage]", "Usage: %s <client_id>"}]_vars

\* A slap with no argument, at a table whose client 0 could be hit.
C13_Witness ==
    /\ cmd = <<"slap">>
    /\ out = <<Com_Printf("Usage: %s <client_id> [damage]", "slap", 0)>>
    /\ g_entities[0].inuse /\ g_entities[0].health > 0

(* C14: frame of the action commands: a Slap or Slay on index i changes at
   most the health and velocity of entity i (Slay: its health only); the
   in_use flag of every entity and the health and velocity of every entity
   j # i are left as they were, and so are the Interpreter Session state
   and the registered handler. *)
C14_ActionFrame ==
    [][(Len(cmd') >= 1 /\ cmd'[1] \in {"slap", "slay"})
        => /\ UNCHANGED <<initialized, custom_command_handler>>
           /\ \A j \in EntityIndices :
                /\ g_entities'[j].inuse = g_entities[j].inuse
                /\ (Len(cmd') < 2 \/ j # Target(cmd')) => g_entities'[j] = g_entities[j]
                /\ cmd'[1] = "slay" => g_entities'[j].velocity = g_entities[j].velocity]_vars

\* Client 1 has been slain next to a client 0 that is alive and was pushed
\* by an earlier slap.
C14_Witness ==
    /\ Ran(cmd, "slay", 1) /\ Target(cmd) = 1
    /\ g_entities[1].health = OverkillHealth
    /\ g_entities[0].inuse /\ g_entities[0].health > 0
    /\ g_entities[0].velocity[3] = UpImpulse

\* The operations of a command's effects, in the order they were made.
OpSeq(seq) == [k \in 1..Len(seq) |-> seq[k].op]

(* C15: within one Restart the steps come in the order Finalize (made
   exactly when the session was Initialized), then Initialize, then the
   new-game notification with the sentinel parameter 0; the notification
   always finds the session Initialized, never finalized or not yet
   initialized. *)
C15_RestartOrder ==
    [][/\ RestartPython
          => /\ OpSeq(out') = <<"Com_Printf">>
                    \o (IF initialized THEN <<"PyMinqlx_Finalize">> ELSE <<>>)
                    \o <<"PyMinqlx_Initialize", "NewGameDispatcher">>
             /\ out'[Len(out')] = Effect("NewGameDispatcher", "Initialized", "", -1, 0)
       /\ \A k \in Ops(out', "NewGameDispatcher") :
             out'[k].msg = "Initialized" /\ out'[k].num = 0]_vars

\* A Restart of a live session: Finalize, Initialize and the notification,
\* in that order, and nothing registered afterwards.
C15_Witness ==
    /\ Ran(cmd, "restart_python", 0)
    /\ OpSeq(out) = <<"Com_Printf", "PyMinqlx_Finalize", "PyMinqlx_Initialize",
                      "NewGameDispatcher">>
    /\ initialized /\ custom_command_handler = NULL

(* C16: a dispatch of a scripted command with a registered handler invokes
   the handler exactly once, with the serialization lock held: the lock is
   acquired before the invocation, and after the handler returned the result
   is inspected (the diagnostic, if any, printed) and the temporary result
   reference released before the lock is released; the per-call state goes
   Idle -> Executing -> Idle. *)
C16_CallUnderLock ==
    [][/\ (PyCommand_Call /\ custom_command_handler # NULL)
          => /\ pc = "idle" /\ pc' = "call" /\ gil' = 1
             /\ out' = <<Effect("PyGILState_Ensure", "", "", -1, 0),
                         Effect("PyObject_CallFunction", custom_command_handler,
                                cmd'[2], -1, 0)>>
       /\ PyCommand_Return
          => /\ pc = "call" /\ pc' = "idle" /\ gil = 1 /\ gil' = 0
             /\ OpSeq(out') \in
                  {<<"PyGILState_Ensure", "PyObject_CallFunction", "return">>
                     \o d \o <<"Py_XDECREF", "PyGILState_Release">>
                   : d \in {<<>>, <<"Com_Printf">>}}
             /\ out'[Len(out') - 1].msg = out'[3].msg]_vars

\* A finished dispatch whose handler declined: the diagnostic, the release
\* of the result and the release of the lock followed the one invocation.
C16_Witness ==
    /\ Ran(cmd, "py_command", 1) /\ pc = "idle" /\ gil = 0
    /\ OpSeq(out) = <<"PyGILState_Ensure", "PyObject_CallFunction", "return",
                      "Com_Printf", "Py_XDECREF", "PyGILState_Release">>
    /\ out[3].msg = "Py_False"

(* C20: a scripted dispatch enters the interpreter (lock acquired, handler
   called) only while the Interpreter Session is Initialized: a session
   that is not Initialized has no registered handler, a Restart leaves the
   handler unregistered, and a dispatch that finds no handler is a silent
   no-op. *)
C20_EnterOnlyInitialized ==
    [][/\ ~initialized => custom_command_handler = NULL
       /\ ~initialized' => custom_command_handler' = NULL
       /\ pc' = "call" => initialized'
       /\ RestartPython => custom_command_handler' = NULL
       /\ (PyCommand_Call /\ custom_command_handler = NULL)
          => /\ out' = <<>>
             /\ UNCHANGED <<gil, pc, callee, g_entities, crashed, initialized,
                            custom_command_handler, script_refs>>]_vars

\* A dispatch that found the session Initialized with nothing registered,
\* as a Restart leaves it: nothing was done.
C20_Witness ==
    /\ Ran(cmd, "py_command", 1) /\ out = <<>> /\ pc = "idle"
    /\ initialized /\ custom_command_handler = NULL
    /\ script_refs = {}

\* The command in c is slap or slay, with or without arguments.
IsAction(c) == Ran(c, "slap", 0) \/ Ran(c, "slay", 0)

\* The command in c is aimed at an entity of table ents that the range test
\* lets through and that is in use with health above 0.
Hits(c, ents) ==
    /\ Len(c) >= 2
    /\ Target(c) \in 0..sv_maxclients
    /\ Active(ents[Target(c)])

(* C17: for Slap and Slay, broadcast, network event and entity mutation are
   all or nothing: an invocation sends exactly one broadcast, raises exactly
   one event and changes its target exactly when the index passes the range
   test and the target is in use with health > 0, and does none of the
   three otherwise; Slap's broadcast names the damage exactly when the
   damage argument is nonzero. *)
C17_AllOrNothing ==
    [][IsAction(cmd')
        => /\ IF Hits(cmd', g_entities)
              THEN /\ Cardinality(Ops(out', "SV_SendServerCommand")) = 1
                   /\ Cardinality(Ops(out', "G_AddEvent")) = 1
                   /\ g_entities'[Target(cmd')] # g_entities[Target(cmd')]
              ELSE /\ Ops(out', "SV_SendServerCommand") = {}
                   /\ Ops(out', "G_AddEvent") = {}
                   /\ g_entities' = g_entities
           /\ Ran(cmd', "slap", 1)
              => \A k \in Ops(out', "SV_SendServerCommand") :
                    (out'[k].msg = "%s^7 was slapped for %d damage!"
                        /\ out'[k].num = Damage(cmd'))
                    <=> Damage(cmd') # 0]_vars

(* C18: an entity that is in use but has health <= 0 is treated like an
   inactive one: a Slap or Slay on it changes nothing and emits no event and
   no broadcast, only the 'not active' diagnostic.  No command changes an
   entity whose health is <= 0, and a death or gib event goes out for an
   entity only in the step that takes its health from above 0 to 0 or
   below: so a sequence of commands emits at most one for it. *)
C18_DeadStaysDead ==
    [][IsAction(cmd')
        => /\ (Len(cmd') >= 2 /\ Target(cmd') \in 0..sv_maxclients
                  /\ g_entities[Target(cmd')].inuse
                  /\ g_entities[Target(cmd')].health <= 0)
              => /\ g_entities' = g_entities
                 /\ ~crashed'
                 /\ out' = <<Com_Printf("The player is currently not active.", "", 0)>>
           /\ \A j \in EntityIndices :
                /\ g_entities[j].health <= 0 => g_entities'[j] = g_entities[j]
                /\ (\E k \in Ops(out', "G_AddEvent") :
                        out'[k].ent = j /\ out'[k].msg \in {"EV_DEATH1", "EV_GIB_PLAYER"})
                   => /\ g_entities[j].health > 0
                      /\ g_entities'[j].health <= 0]_vars

\* Client 0 was slapped from 50 to -10 and then slain: the slay did nothing.
C18_Witness ==
    /\ Ran(cmd, "slay", 1) /\ Target(cmd) = 0
    /\ g_entities[0].inuse /\ g_entities[0].health = -10
    /\ g_entities[0].velocity[3] = UpImpulse
    /\ out = <<Com_Printf("The player is currently not active.", "", 0)>>

(* C19: Slap never raises a target's health: for every integer damage
   argument that can be passed, negative ones included, the health of every
   entity after a Slap is less than or equal to its health before. *)
C19_SlapNeverHeals ==
    [][Ran(cmd', "slap", 1)
        => \A j \in EntityIndices : g_entities'[j].health <= g_entities[j].health]_vars

====
